---- MODULE Spec2Model ----
(***************************************************************************)
(* ConnectionPool of src/src/database/pool.ts as a state machine.          *)
(*                                                                         *)
(* The pool runs on one JavaScript event loop: every action below is one   *)
(* run-to-completion segment of a pool method (from its call, or from the  *)
(* resumption of an await, up to the next await or its return), or one     *)
(* timer callback.  Segments of different calls interleave freely.         *)
(***************************************************************************)
EXTENDS Integers, Sequences, FiniteSets

\* ---------------------------------------------------------------- bounds
MaxSize == 2        \* largest config.size / resize() argument explored
MaxClients == 2     \* PrismaClient objects alive (referenced) at one time
MaxCalls == 3       \* acquire()/execute()/release() calls issued while resize(), close()
                    \* and the cleanup interleave
MaxQueueCalls == 4  \* calls issued when only acquire(), release() and timers run
MaxTimers == 1      \* idle-cleanup intervals ever started (capped in guards)
MaxInFlight == 1    \* initialize()/resize()/close() calls suspended at one time
MaxOverlap == 2     \* initialize() calls in flight or completed where they overlap
MaxRetryClients == 3  \* PrismaClient objects alive where a failed initialize() is retried

Calls == 1..MaxQueueCalls
NoClient == 0                   \* no client (undefined)
ForeignHandle == MaxClients + 1 \* a client object the pool never created

VARIABLES
    configSize,     \* this.config.size
    connections,    \* this.connections: Seq of [client, inUse, old]
    waitQueue,      \* this.waitQueue: Seq of [resolve, reject]
    initialized,    \* this.initialized
    cleanupTimers,  \* number of setInterval timers started and never cleared
    calls,          \* one entry per acquire()/execute() call: its promise and caller
    inits,          \* initialize() calls suspended in createConnection()
    resizing,       \* the resize() call in flight, if any
    closing,        \* "idle", or what the close() in flight awaits: "empty", "disconnecting"
    removing,       \* records whose $disconnect() was started by the cleanup tick
    health          \* the healthCheck() call: its locals while it probes, then its result

vars == <<configSize, connections, waitQueue, initialized, cleanupTimers, calls,
          inits, resizing, closing, removing, health>>

\* ------------------------------------------------------------- helpers
RemoveAt(s, i) == SubSeq(s, 1, i - 1) \o SubSeq(s, i + 1, Len(s))

Min(S) == CHOOSE x \in S : \A y \in S : x <= y

\* Array.prototype.find / findIndex / indexOf over the matching indices: the
\* first match, 0 for none.
First(hits) == IF hits = {} THEN 0 ELSE Min(hits)

\* Mutant of FindIdle: the last idle record is found.
FindIdleLast(conns) ==
    IF \A i \in 1..Len(conns) : conns[i].inUse THEN 0
    ELSE CHOOSE i \in 1..Len(conns) :
            ~conns[i].inUse /\ \A j \in (i + 1)..Len(conns) : conns[j].inUse

\* this.connections.find(conn => !conn.inUse)
FindIdle(conns) ==
    First({i \in 1..Len(conns) : ~conns[i].inUse})

\* this.connections.find(conn => conn.client === client); indexOf(connection)
FindClient(conns, client) ==
    First({i \in 1..Len(conns) : conns[i].client = client})

Tracked(client) == FindClient(connections, client) # 0

\* The two function objects of one acquire() promise: the executor's own
\* resolve, and the arrow function stored in the wait queue, which wraps it.
ExecutorResolve(a) == <<"resolve", a>>
WrappedResolve(a) == <<"wrapper", a>>

\* The entry acquire() pushes on the wait queue.
Waiter(a) == [waiter |-> a, resolve |-> WrappedResolve(a)]

\* A call that has not been issued yet.
NoCall == [st |-> "unused", client |-> NoClient, timer |-> FALSE]

\* No resize() call is in flight.
NoResize == [pc |-> "idle", newSize |-> 0, i |-> 0, toAdd |-> 0,
             idx |-> 0, removed |-> 0, toRemove |-> 0, target |-> NoClient]

\* The initialize(), resize() and close() calls suspended at an await.
InFlight ==
    Len(inits) + (IF resizing.pc = "idle" THEN 0 ELSE 1)
               + (IF closing = "idle" THEN 0 ELSE 1)

\* Mutant of StatusOf: idle counts every record.
StatusOfIdleAll(conns, queue) ==
    [total   |-> Len(conns),
     active  |-> Cardinality({i \in 1..Len(conns) : conns[i].inUse}),
     idle    |-> Len(conns),
     waiting |-> Len(queue)]

\* getStatus()
StatusOf(conns, queue) ==
    [total   |-> Len(conns),
     active  |-> Cardinality({i \in 1..Len(conns) : conns[i].inUse}),
     idle    |-> Cardinality({i \in 1..Len(conns) : ~conns[i].inUse}),
     waiting |-> Len(queue)]

getStatus == StatusOf(connections, waitQueue)

\* No healthCheck() call has been made.
NoHealth == [pc |-> "idle", call |-> 0, errors |-> <<>>,
             details |-> StatusOf(<<>>, <<>>), status |-> "none"]

\* ---------------------------------------------------------------- Init
\* The state after `new ConnectionPool(config)`.
Init ==
    /\ configSize \in 1..MaxSize
    /\ connections = <<>>
    /\ waitQueue = <<>>
    /\ initialized = FALSE
    /\ cleanupTimers = 0
    /\ calls = [a \in Calls |-> NoCall]
    /\ inits = <<>>
    /\ resizing = NoResize
    /\ closing = "idle"
    /\ removing = {}
    /\ health = NoHealth

\* ------------------------------------------------------- promise plumbing
\* resolve(client) of the acquire() promise: a settled promise ignores it.
PromiseResolve(call, client) ==
    IF call.st = "pending"
    THEN [call EXCEPT !.st = "holding", !.client = client]
    ELSE call

\* reject(error) of the acquire() promise: a settled promise ignores it.
PromiseReject(call, reason) ==
    IF call.st = "pending" THEN [call EXCEPT !.st = reason] ELSE call

\* Mutant of WaiterResolve: the timer is left armed.
WaiterResolveTimerLeft(call, client) ==
    PromiseResolve(call, client)

\* waitQueue item.resolve: clearTimeout(timeoutId); resolve(client)
WaiterResolve(call, client) ==
    PromiseResolve([call EXCEPT !.timer = FALSE], client)

\* waitQueue item.reject: clearTimeout(timeoutId); reject(error)
WaiterReject(call, reason) ==
    PromiseReject([call EXCEPT !.timer = FALSE], reason)

\* A new record of createConnection(): idle, just used.
NewConnection(client) == [client |-> client, inUse |-> FALSE, old |-> FALSE]

\* The index the timeout callback looks up: the queue holds the wrapper
\* functions, the callback compares with the executor's resolve.
TimeoutIndex(queue, a) ==
    First({k \in 1..Len(queue) : queue[k].resolve = ExecutorResolve(a)})

\* waitQueue.shift(): the waiter release() serves
ShiftIndex(queue) == 1

\* ------------------------------------------------------------- acquire()
NextCall == Min({a \in Calls : calls[a].st = "unused"} \cup {MaxQueueCalls + 1})

\* Mutant of AcquireIdle: the record is returned without being marked.
AcquireIdleUnmarked(a) ==
    LET idx == FindIdle(connections) IN
    /\ idx # 0
    /\ calls' = [calls EXCEPT ![a] = [st |-> "holding", client |-> connections[idx].client,
                                      timer |-> FALSE]]
    /\ UNCHANGED <<connections, waitQueue>>

\* acquire() finding an idle record: marks it and returns its client.
AcquireIdle(a) ==
    LET idx == FindIdle(connections) IN
    /\ idx # 0
    /\ connections' = [connections EXCEPT ![idx].inUse = TRUE, ![idx].old = FALSE]
    /\ calls' = [calls EXCEPT ![a] = [st |-> "holding", client |-> connections[idx].client,
                                      timer |-> FALSE]]
    /\ UNCHANGED waitQueue

\* Mutant of AcquireWait: the waiter is pushed without a timer.
AcquireWaitNoTimer(a) ==
    /\ FindIdle(connections) = 0
    /\ waitQueue' = Append(waitQueue, Waiter(a))
    /\ calls' = [calls EXCEPT ![a] = [st |-> "pending", client |-> NoClient,
                                      timer |-> FALSE]]
    /\ UNCHANGED connections

\* acquire() finding none: arms the timer and pushes a waiter.
AcquireWait(a) ==
    /\ FindIdle(connections) = 0
    /\ waitQueue' = Append(waitQueue, Waiter(a))
    /\ calls' = [calls EXCEPT ![a] = [st |-> "pending", client |-> NoClient,
                                      timer |-> TRUE]]
    /\ UNCHANGED connections

\* acquire(), called directly or as the first statement of execute(fn).
Acquire(limit) ==
    /\ NextCall <= limit
    /\ AcquireIdle(NextCall) \/ AcquireWait(NextCall)
    /\ UNCHANGED <<configSize, initialized, cleanupTimers, inits,
                   resizing, closing, removing, health>>

\* Mutant of AcquireTimeout: the callback forgets to reject.
AcquireTimeoutNoReject(a) ==
    /\ calls[a].timer
    /\ LET index == TimeoutIndex(waitQueue, a) IN
       waitQueue' = IF index # 0 THEN RemoveAt(waitQueue, index) ELSE waitQueue
    /\ calls' = [calls EXCEPT ![a].timer = FALSE]
    /\ UNCHANGED <<configSize, connections, initialized, cleanupTimers, inits, resizing, closing, removing,
                   health>>

\* The setTimeout callback of a queued acquire().
AcquireTimeout(a) ==
    /\ calls[a].timer
    /\ LET index == TimeoutIndex(waitQueue, a) IN
       waitQueue' = IF index # 0 THEN RemoveAt(waitQueue, index) ELSE waitQueue
    /\ calls' = [calls EXCEPT ![a] = PromiseReject([@ EXCEPT !.timer = FALSE], "timeout")]
    /\ UNCHANGED <<configSize, connections, initialized, cleanupTimers, inits, resizing, closing, removing,
                   health>>

\* ------------------------------------------------------------- release()
\* Mutant of ReleaseUnknown: the wait queue is processed all the same.
ReleaseUnknownServes(client, conns, queue, cs) ==
    IF Len(queue) > 0
    THEN [connections |-> conns, waitQueue |-> Tail(queue),
          calls |-> [cs EXCEPT ![queue[1].waiter] = WaiterResolve(@, client)]]
    ELSE [connections |-> conns, waitQueue |-> queue, calls |-> cs]

\* release() of a client no record holds: warn and return.
ReleaseUnknown(client, conns, queue, cs) ==
    [connections |-> conns, waitQueue |-> queue, calls |-> cs]

\* release() with a non-empty queue: the record, already marked idle, is
\* marked in use again and passed to the shifted waiter's resolve.
ReleaseHandOff(client, idx, conns, queue, cs) ==
    LET w == queue[ShiftIndex(queue)].waiter IN
    [connections |-> [conns EXCEPT ![idx].inUse = TRUE],
     waitQueue   |-> RemoveAt(queue, ShiftIndex(queue)),
     calls       |-> [cs EXCEPT ![w] = WaiterResolve(@, client)]]

\* Mutant of release: with no waiter the record is left marked in use.
ReleaseLeftInUse(client, conns, queue, cs) ==
    LET idx == FindClient(conns, client) IN
    IF idx = 0
    THEN ReleaseUnknown(client, conns, queue, cs)
    ELSE IF Len(queue) > 0
         THEN ReleaseHandOff(client, idx, conns, queue, cs)
         ELSE [connections |-> conns, waitQueue |-> queue, calls |-> cs]

\* release(client) on the pool state (conns, queue, cs).
release(client, conns, queue, cs) ==
    LET idx == FindClient(conns, client) IN
    IF idx = 0
    THEN ReleaseUnknown(client, conns, queue, cs)
    ELSE LET freed == [conns EXCEPT ![idx].inUse = FALSE, ![idx].old = FALSE] IN
         IF Len(queue) > 0
         THEN ReleaseHandOff(client, idx, freed, queue, cs)
         ELSE [connections |-> freed, waitQueue |-> queue, calls |-> cs]

\* The pool variables after release(client), the callers being in state cs.
DoRelease(client, cs) ==
    LET r == release(client, connections, waitQueue, cs) IN
    /\ connections' = r.connections
    /\ waitQueue' = r.waitQueue
    /\ calls' = r.calls
    /\ UNCHANGED <<configSize, initialized, cleanupTimers, inits,
                   resizing, closing, removing, health>>

\* What a caller is left with once its call is over: no client, unless it
\* keeps the reference (keep).
Finished(call, st, keep) ==
    [st |-> st, client |-> IF keep THEN call.client ELSE NoClient,
     timer |-> call.timer]

\* A caller of acquire() releases the client it holds and drops it.
Release(a) ==
    /\ calls[a].st = "holding"
    /\ DoRelease(calls[a].client,
                 [calls EXCEPT ![a] = Finished(@, "released", FALSE)])

\* A caller of acquire() releases the client it holds and keeps the reference.
ReleaseKeep(a) ==
    /\ calls[a].st = "holding"
    /\ DoRelease(calls[a].client,
                 [calls EXCEPT ![a] = Finished(@, "released", TRUE)])

\* A caller releases again the client it has released and kept.
DoubleRelease(a) ==
    /\ calls[a].st = "released"
    /\ calls[a].client # NoClient
    /\ DoRelease(calls[a].client, calls)

\* A caller that never acquired calls release() on a client object of its own.
ReleaseForeign(limit) ==
    /\ NextCall <= limit
    /\ DoRelease(ForeignHandle,
                 [calls EXCEPT ![NextCall] = [NoCall EXCEPT !.st = "foreign",
                                                           !.client = ForeignHandle]])

\* Mutant of ExecuteSettle: no finally block, a throwing fn skips release().
ExecuteSettleNoFinally(a, ok) ==
    /\ calls[a].st = "holding"
    /\ IF ok
       THEN DoRelease(calls[a].client,
                      [calls EXCEPT ![a] = Finished(@, "returned", FALSE)])
       ELSE /\ calls' = [calls EXCEPT ![a] = Finished(@, "threw", FALSE)]
            /\ UNCHANGED <<configSize, connections, waitQueue, initialized,
                           cleanupTimers, inits, resizing, closing, removing, health>>

\* execute(fn) whose acquire() returned: fn(client) returns (ok) or throws,
\* and the finally block releases.  Whether a call is the acquire() of an
\* execute() shows only here: the pool treats both alike until then.
ExecuteSettle(a, ok) ==
    /\ calls[a].st = "holding"
    /\ DoRelease(calls[a].client,
                 [calls EXCEPT ![a] = Finished(@, IF ok THEN "returned" ELSE "threw", FALSE)])

\* ---------------------------------------------------- createConnection()
\* The client objects something still refers to: the records, the callers,
\* and the removeConnection() calls in flight.
Referenced ==
    {connections[i].client : i \in 1..Len(connections)}
        \cup {calls[a].client : a \in Calls}
        \cup removing \cup {resizing.target}

\* new PrismaClient(): an object distinct from every one still referred to,
\* of at most `clients` objects alive.
NewClientWithin(clients) ==
    Min({c \in 1..(clients + 1) : c \notin Referenced \/ c > clients})

NewClient == NewClientWithin(MaxClients)

\* The push at the end of createConnection(), after $connect() resolved.
CreateConnectionWithin(conns, clients) ==
    Append(conns, NewConnection(NewClientWithin(clients)))

CreateConnection(conns) == CreateConnectionWithin(conns, MaxClients)

\* ----------------------------------------------------------- initialize()
\* Mutant of Initialize: the initialized flag is not looked at.
InitializeNoGuard ==
    /\ IF 0 < configSize
       THEN /\ inits' = Append(inits, 0)
            /\ UNCHANGED <<cleanupTimers, initialized>>
       ELSE /\ cleanupTimers' = cleanupTimers + 1
            /\ initialized' = TRUE
            /\ UNCHANGED inits
    /\ UNCHANGED <<configSize, connections, waitQueue, calls, resizing, closing, removing,
                   health>>

\* initialize() up to its first await.  inits holds the loop counter i of
\* every initialize() call suspended in `await this.createConnection()`.
\* A call on an initialized pool returns at once, whatever else is in
\* flight; the bounds cap the calls that start a loop.
InitializeWithin(timers, inFlight) ==
    /\ initialized \/ (cleanupTimers + Len(inits) < timers /\ InFlight < inFlight)
    /\ IF initialized
       THEN UNCHANGED <<inits, cleanupTimers, initialized>>
       ELSE IF 0 < configSize
            THEN /\ inits' = Append(inits, 0)
                 /\ UNCHANGED <<cleanupTimers, initialized>>
            ELSE /\ cleanupTimers' = cleanupTimers + 1
                 /\ initialized' = TRUE
                 /\ UNCHANGED inits
    /\ UNCHANGED <<configSize, connections, waitQueue, calls, resizing, closing, removing,
                   health>>

Initialize == InitializeWithin(MaxTimers, MaxInFlight)

\* Mutant of InitializeCreated: the loop ends after its first creation.
InitializeCreatedOnce(k) ==
    /\ k \in 1..Len(inits)
    /\ NewClient <= MaxClients
    /\ connections' = CreateConnection(connections)
    /\ inits' = RemoveAt(inits, k)
    /\ cleanupTimers' = cleanupTimers + 1
    /\ initialized' = TRUE
    /\ UNCHANGED <<configSize, waitQueue, calls, resizing, closing, removing, health>>

\* createConnection() of the k-th suspended initialize() succeeds: the record
\* is pushed, the loop goes on or ends with the timer and the flag.
InitializeCreatedWithin(k, clients) ==
    /\ k \in 1..Len(inits)
    /\ NewClientWithin(clients) <= clients
    /\ connections' = CreateConnectionWithin(connections, clients)
    /\ IF inits[k] + 1 < configSize
       THEN /\ inits' = [inits EXCEPT ![k] = @ + 1]
            /\ UNCHANGED <<cleanupTimers, initialized>>
       ELSE /\ inits' = RemoveAt(inits, k)
            /\ cleanupTimers' = cleanupTimers + 1
            /\ initialized' = TRUE
    /\ UNCHANGED <<configSize, waitQueue, calls, resizing, closing, removing, health>>

InitializeCreated(k) == InitializeCreatedWithin(k, MaxClients)

\* Mutant of InitializeFailed: the records the call made are removed.
InitializeFailedTearsDown(k) ==
    /\ k \in 1..Len(inits)
    /\ inits' = RemoveAt(inits, k)
    /\ connections' = SubSeq(connections, 1, Len(connections) - inits[k])
    /\ UNCHANGED <<configSize, waitQueue, initialized, cleanupTimers,
                   calls, resizing, closing, removing, health>>

\* createConnection() of the k-th suspended initialize() throws: initialize()
\* rethrows and leaves the records it made.
InitializeFailed(k) ==
    /\ k \in 1..Len(inits)
    /\ inits' = RemoveAt(inits, k)
    /\ UNCHANGED <<configSize, connections, waitQueue, initialized, cleanupTimers,
                   calls, resizing, closing, removing, health>>

\* ------------------------------------------------------------ idle cleanup
\* More than idleTimeout passes: the lastUsed of every idle record is now too
\* old.  (release() overwrites the lastUsed of a record in use before a tick
\* can read it, so the age of a record in use is not kept.)
TimePasses ==
    /\ \E i \in 1..Len(connections) : ~connections[i].inUse /\ ~connections[i].old
    /\ connections' = [i \in 1..Len(connections) |->
                          [connections[i] EXCEPT !.old = ~connections[i].inUse]]
    /\ UNCHANGED <<configSize, waitQueue, initialized, cleanupTimers, calls,
                   inits, resizing, closing, removing, health>>

\* Mutant of CleanupTargets: the idle time is not compared.
CleanupTargetsAnyIdle(conns, size) ==
    {conns[i].client : i \in {j \in 1..Len(conns) :
        ~conns[j].inUse /\ Len(conns) > size \div 2}}

\* The records one tick of the interval calls removeConnection() on.  The
\* loop is synchronous: no record leaves the list before it ends.
CleanupTargets(conns, size) ==
    {conns[i].client : i \in {j \in 1..Len(conns) :
        ~conns[j].inUse /\ conns[j].old /\ Len(conns) > size \div 2}}

\* One tick of a cleanup interval: starts $disconnect() on each target.
CleanupTick ==
    /\ cleanupTimers > 0
    /\ removing' = removing \cup CleanupTargets(connections, configSize)
    /\ UNCHANGED <<configSize, connections, waitQueue, initialized, cleanupTimers,
                   calls, inits, resizing, closing, health>>

\* Mutant of RemoveConnection: the record is spliced also when the
\* disconnect failed.
RemoveConnectionAnyway(conns, client, ok) ==
    LET index == FindClient(conns, client) IN
    IF index # 0 THEN RemoveAt(conns, index) ELSE conns

\* removeConnection() after `await $disconnect()`: splice the record if it
\* is still in the list; a failed disconnect is logged and nothing removed.
RemoveConnection(conns, client, ok) ==
    LET index == FindClient(conns, client) IN
    IF ok /\ index # 0 THEN RemoveAt(conns, index) ELSE conns

\* A removeConnection() started by the cleanup tick resumes.
CleanupRemoved(client, ok) ==
    /\ client \in removing
    /\ removing' = removing \ {client}
    /\ connections' = RemoveConnection(connections, client, ok)
    /\ UNCHANGED <<configSize, waitQueue, initialized, cleanupTimers, calls,
                   inits, resizing, closing, health>>

\* ---------------------------------------------------------------- resize()
\* Mutant of NextShrink: records in use are not passed over.
NextShrinkAny(conns, idx, removed, toRemove) ==
    First({j \in idx..Len(conns) : removed < toRemove})

\* The for-of loop of the shrink branch, resumed at array index idx: the
\* next record it calls removeConnection() on, 0 when the loop runs out.
NextShrink(conns, idx, removed, toRemove) ==
    First({j \in idx..Len(conns) : ~conns[j].inUse /\ removed < toRemove})

\* resize(newSize) up to its first await, or to its end when there is none.
Resize(newSize) ==
    LET currentSize == Len(connections) IN
    /\ resizing.pc = "idle"
    /\ InFlight < MaxInFlight
    /\ IF newSize > currentSize
       THEN /\ resizing' = [NoResize EXCEPT !.pc = "grow", !.newSize = newSize,
                                            !.toAdd = newSize - currentSize]
            /\ UNCHANGED configSize
       ELSE LET toRemove == currentSize - newSize
                first == IF newSize < currentSize
                         THEN NextShrink(connections, 1, 0, toRemove) ELSE 0 IN
            IF first # 0
            THEN /\ resizing' = [NoResize EXCEPT !.pc = "shrink", !.newSize = newSize,
                                    !.idx = first, !.toRemove = toRemove,
                                    !.target = connections[first].client]
                 /\ UNCHANGED configSize
            ELSE /\ configSize' = newSize
                 /\ UNCHANGED resizing
    /\ UNCHANGED <<connections, waitQueue, initialized, cleanupTimers, calls,
                   inits, closing, removing, health>>

\* Mutant of ResizeCreated: the loop ends after the first connection.
ResizeCreatedOnce ==
    /\ resizing.pc = "grow"
    /\ NewClient <= MaxClients
    /\ connections' = CreateConnection(connections)
    /\ resizing' = NoResize
    /\ configSize' = resizing.newSize
    /\ UNCHANGED <<waitQueue, initialized, cleanupTimers, calls, inits, closing,
                   removing, health>>

\* createConnection() of the growing resize() succeeds.
ResizeCreated ==
    /\ resizing.pc = "grow"
    /\ NewClient <= MaxClients
    /\ connections' = CreateConnection(connections)
    /\ IF resizing.i + 1 < resizing.toAdd
       THEN /\ resizing' = [resizing EXCEPT !.i = @ + 1]
            /\ UNCHANGED configSize
       ELSE /\ resizing' = NoResize
            /\ configSize' = resizing.newSize
    /\ UNCHANGED <<waitQueue, initialized, cleanupTimers, calls, inits, closing,
                   removing, health>>

\* createConnection() of the growing resize() throws, and so does resize().
ResizeCreateFailed ==
    /\ resizing.pc = "grow"
    /\ resizing' = NoResize
    /\ UNCHANGED <<configSize, connections, waitQueue, initialized, cleanupTimers,
                   calls, inits, closing, removing, health>>

\* removeConnection() of the shrinking resize() resumes (ok: $disconnect()
\* resolved); removed++ and the for-of loop goes on from the next index.
ResizeRemoved(ok) ==
    /\ resizing.pc = "shrink"
    /\ LET conns == RemoveConnection(connections, resizing.target, ok)
           removed == resizing.removed + 1
           next == NextShrink(conns, resizing.idx + 1, removed, resizing.toRemove) IN
       /\ connections' = conns
       /\ IF next # 0
          THEN /\ resizing' = [resizing EXCEPT !.idx = next, !.removed = removed,
                                               !.target = conns[next].client]
               /\ UNCHANGED configSize
          ELSE /\ resizing' = NoResize
               /\ configSize' = resizing.newSize
    /\ UNCHANGED <<waitQueue, initialized, cleanupTimers, calls, inits,
                   closing, removing, health>>

\* ----------------------------------------------------------------- close()
\* Mutant of Close: the waiters are rejected but the queue is not emptied.
CloseKeepsQueue ==
    /\ closing = "idle"
    /\ InFlight < MaxInFlight
    /\ calls' = [a \in Calls |->
                    IF \E k \in 1..Len(waitQueue) : waitQueue[k].waiter = a
                    THEN WaiterReject(calls[a], "closed")
                    ELSE calls[a]]
    /\ closing' = IF Len(connections) = 0 THEN "empty" ELSE "disconnecting"
    /\ UNCHANGED <<configSize, connections, waitQueue, initialized, cleanupTimers,
                   inits, resizing, removing, health>>

\* close() up to `await Promise.all(closePromises)`.
Close ==
    /\ closing = "idle"
    /\ InFlight < MaxInFlight
    /\ calls' = [a \in Calls |->
                    IF \E k \in 1..Len(waitQueue) : waitQueue[k].waiter = a
                    THEN WaiterReject(calls[a], "closed")
                    ELSE calls[a]]
    /\ waitQueue' = <<>>
    /\ closing' = IF Len(connections) = 0 THEN "empty" ELSE "disconnecting"
    /\ UNCHANGED <<configSize, connections, initialized, cleanupTimers, inits, resizing, removing,
                   health>>

\* Promise.all resolved: the list is dropped and the flag reset.
CloseDone ==
    /\ closing # "idle"
    /\ closing' = "idle"
    /\ connections' = <<>>
    /\ initialized' = FALSE
    /\ UNCHANGED <<configSize, waitQueue, cleanupTimers, calls, inits,
                   resizing, removing, health>>

\* Promise.all rejected (a $disconnect() failed): close() throws.
CloseFailed ==
    /\ closing = "disconnecting"
    /\ closing' = "idle"
    /\ UNCHANGED <<configSize, connections, waitQueue, initialized, cleanupTimers,
                   calls, inits, resizing, removing, health>>

\* ----------------------------------------------------------- healthCheck()
\* Mutant of HealthErrors: the initialized flag is not looked at.
HealthErrorsFlagIgnored(init, status) ==
    (IF status.total = 0 THEN <<"No connections in pool">> ELSE <<>>)
        \o (IF status.waiting > status.total THEN <<"High wait queue">> ELSE <<>>)

\* The errors healthCheck() pushes before its probe.
HealthErrors(init, status) ==
    (IF ~init THEN <<"Pool not initialized">> ELSE <<>>)
        \o (IF status.total = 0 THEN <<"No connections in pool">> ELSE <<>>)
        \o (IF status.waiting > status.total THEN <<"High wait queue">> ELSE <<>>)

\* Mutant of Classify: two errors are already unhealthy.
ClassifyStrict(errors) ==
    IF Len(errors) = 0 THEN "healthy"
    ELSE IF Len(errors) <= 1 THEN "degraded" ELSE "unhealthy"

\* The classification at the end of healthCheck().
Classify(errors) ==
    IF Len(errors) = 0 THEN "healthy"
    ELSE IF Len(errors) <= 2 THEN "degraded" ELSE "unhealthy"

\* healthCheck() up to `await this.execute(...)`: it reads getStatus() and
\* the flag, pushes the errors it sees, and execute() calls acquire().
HealthCheck(limit) ==
    /\ health.pc # "probing"
    /\ NextCall <= limit
    /\ health' = [pc |-> "probing", call |-> NextCall,
                  errors |-> HealthErrors(initialized, getStatus),
                  details |-> getStatus, status |-> "none"]
    /\ AcquireIdle(NextCall) \/ AcquireWait(NextCall)
    /\ UNCHANGED <<configSize, initialized, cleanupTimers, inits,
                   resizing, closing, removing>>

\* The probe of healthCheck(): $queryRaw`SELECT 1` resolves (ok) or rejects
\* on the client execute() acquired, and execute() releases it.
HealthProbe(ok) ==
    /\ health.pc = "probing"
    /\ ExecuteSettle(health.call, ok)

\* The execute() of the probe has failed: its fn threw, or its acquire()
\* timed out or was rejected by close().
ProbeFailed == calls[health.call].st \in {"threw", "timeout", "closed"}

\* Mutant of HealthReturn: no try/catch around the probe, its error escapes.
HealthReturnNoCatch ==
    /\ health.pc = "probing"
    /\ calls[health.call].st \in {"returned", "threw", "timeout", "closed"}
    /\ health' = IF ProbeFailed
                 THEN [health EXCEPT !.pc = "threw"]
                 ELSE [health EXCEPT !.pc = "done", !.call = 0,
                                     !.status = Classify(health.errors)]
    /\ UNCHANGED <<configSize, connections, waitQueue, initialized, cleanupTimers,
                   calls, inits, resizing, closing, removing>>

\* healthCheck() resumed after execute() settled: the catch block pushes the
\* probe's failure, the errors are counted and the result is returned.
HealthReturn ==
    /\ health.pc = "probing"
    /\ calls[health.call].st \in {"returned", "threw", "timeout", "closed"}
    /\ LET errors == IF ProbeFailed
                     THEN Append(health.errors, "Connection test failed")
                     ELSE health.errors IN
       health' = [health EXCEPT !.pc = "done", !.call = 0, !.errors = errors,
                                !.status = Classify(errors)]
    /\ UNCHANGED <<configSize, connections, waitQueue, initialized, cleanupTimers,
                   calls, inits, resizing, closing, removing>>

\* ------------------------------------------------------------ specification
Next ==
    \/ Initialize
    \/ \E k \in 1..Len(inits) : InitializeCreated(k)
    \/ \E k \in 1..Len(inits) : InitializeFailed(k)
    \/ Acquire(MaxCalls)
    \/ \E a \in Calls : AcquireTimeout(a)
    \/ \E a \in Calls : Release(a)
    \/ ReleaseForeign(MaxCalls)
    \/ \E a \in Calls, ok \in BOOLEAN : ExecuteSettle(a, ok)
    \/ TimePasses
    \/ CleanupTick
    \/ \E client \in removing, ok \in BOOLEAN : CleanupRemoved(client, ok)
    \/ \E newSize \in 0..MaxSize : Resize(newSize)
    \/ ResizeCreated
    \/ ResizeCreateFailed
    \/ \E ok \in BOOLEAN : ResizeRemoved(ok)
    \/ Close
    \/ CloseDone
    \/ CloseFailed

\* Callers that release a client only while they hold it.
Spec == Init /\ [][Next]_vars

\* Callers that keep the client they released and may release it again.
NextMisuse ==
    \/ Initialize
    \/ \E k \in 1..Len(inits) : InitializeCreated(k)
    \/ Acquire(MaxCalls)
    \/ \E a \in Calls : AcquireTimeout(a)
    \/ \E a \in Calls : ReleaseKeep(a)
    \/ \E a \in Calls : DoubleRelease(a)

SpecMisuse == Init /\ [][NextMisuse]_vars

\* The wait queue alone: initialize(), then acquire(), release(), execute()
\* and the acquire timers, with one more call than Spec has.
NextQueue ==
    \/ Initialize
    \/ \E k \in 1..Len(inits) : InitializeCreated(k)
    \/ Acquire(MaxQueueCalls)
    \/ \E a \in Calls : AcquireTimeout(a)
    \/ \E a \in Calls : Release(a)
    \/ \E a \in Calls, ok \in BOOLEAN : ExecuteSettle(a, ok)

SpecQueue == Init /\ [][NextQueue]_vars

\* No initialize(), resize() or close() call is suspended at an await.
Alone == InFlight = 0

\* The idle cleanup alone: initialize(), acquire(), release() and the
\* cleanup interval, config.size never changed by resize().
NextCleanup ==
    \/ Initialize
    \/ \E k \in 1..Len(inits) : InitializeCreated(k)
    \/ Acquire(MaxCalls)
    \/ \E a \in Calls : Release(a)
    \/ TimePasses
    \/ CleanupTick
    \/ \E client \in removing, ok \in BOOLEAN : CleanupRemoved(client, ok)

SpecCleanup == Init /\ [][NextCleanup]_vars

\* initialize() running by itself, its connections created or refused:
\* acquire() and release() are called while no initialize() is suspended.
NextInit ==
    \/ Alone /\ Initialize
    \/ \E k \in 1..Len(inits) : InitializeCreated(k)
    \/ \E k \in 1..Len(inits) : InitializeFailed(k)
    \/ Alone /\ Acquire(MaxCalls)
    \/ \E a \in Calls : AcquireTimeout(a)
    \/ Alone /\ \E a \in Calls : Release(a)

SpecInit == Init /\ [][NextInit]_vars

\* resize() running by itself: every other call is made, and every
\* initialize() has settled, while no resize() is suspended; connections are
\* created and disconnected without error.
NextResize ==
    \/ Alone /\ Initialize
    \/ \E k \in 1..Len(inits) : InitializeCreated(k)
    \/ Alone /\ Acquire(MaxCalls)
    \/ Alone /\ \E a \in Calls : Release(a)
    \/ Alone /\ \E newSize \in 0..MaxSize : Resize(newSize)
    \/ ResizeCreated
    \/ ResizeRemoved(TRUE)

SpecResize == Init /\ [][NextResize]_vars

\* resize() with the idle cleanup, where what is awaited settles and timers
\* fire: connections are created and disconnected without error, and
\* resize() is called while at most one record is idle, so that its loop has
\* no second idle record to pass over.
NextEventual ==
    \/ Alone /\ Initialize
    \/ \E k \in 1..Len(inits) : InitializeCreated(k)
    \/ Acquire(MaxCalls)
    \/ \E a \in Calls : Release(a)
    \/ getStatus.idle <= 1 /\ \E newSize \in 0..MaxSize : Resize(newSize)
    \/ ResizeCreated
    \/ ResizeRemoved(TRUE)
    \/ TimePasses
    \/ CleanupTick
    \/ \E client \in removing : CleanupRemoved(client, TRUE)

\* Time passes, an interval that was started ticks, and an awaited
\* $connect() or $disconnect() settles.
TimersAndPromisesRun ==
    /\ WF_vars(TimePasses)
    /\ WF_vars(CleanupTick)
    /\ WF_vars(\E client \in removing : CleanupRemoved(client, TRUE))
    /\ WF_vars(\E k \in 1..Len(inits) : InitializeCreated(k))
    /\ WF_vars(ResizeCreated)
    /\ WF_vars(ResizeRemoved(TRUE))

SpecEventual == Init /\ [][NextEventual]_vars /\ TimersAndPromisesRun

\* The wait queue with close(), where an armed acquire timer fires in the
\* end: setTimeout callbacks run once the event loop is free, and no
\* segment of the pool blocks it.
NextSettle ==
    \/ Alone /\ Initialize
    \/ \E k \in 1..Len(inits) : InitializeCreated(k)
    \/ Acquire(MaxCalls)
    \/ \E a \in Calls : AcquireTimeout(a)
    \/ \E a \in Calls : Release(a)
    \/ \E a \in Calls, ok \in BOOLEAN : ExecuteSettle(a, ok)
    \/ Alone /\ Close
    \/ CloseDone

AcquireTimersFire == \A a \in Calls : WF_vars(AcquireTimeout(a))

SpecSettle == Init /\ [][NextSettle]_vars /\ AcquireTimersFire

\* The idle cleanup and the shrinking resize() against a database that
\* refuses every $disconnect(), among callers of acquire() and release().
NextDisconnectFails ==
    \/ Alone /\ Initialize
    \/ \E k \in 1..Len(inits) : InitializeCreated(k)
    \/ Acquire(MaxCalls)
    \/ \E a \in Calls : Release(a)
    \/ TimePasses
    \/ CleanupTick
    \/ \E client \in removing : CleanupRemoved(client, FALSE)
    \/ Alone /\ \E newSize \in 0..(Len(connections) - 1) : Resize(newSize)
    \/ ResizeRemoved(FALSE)

SpecDisconnectFails == Init /\ [][NextDisconnectFails]_vars

\* initialize() called again before an earlier call has completed, every
\* connection created without error, among callers of acquire() and
\* release().
NextOverlap ==
    \/ InitializeWithin(MaxOverlap, MaxOverlap)
    \/ \E k \in 1..Len(inits) : InitializeCreated(k)
    \/ Acquire(MaxCalls)
    \/ \E a \in Calls : AcquireTimeout(a)
    \/ \E a \in Calls : Release(a)

SpecOverlap == Init /\ [][NextOverlap]_vars

\* initialize() called again after an earlier call failed, or after
\* close(): each call is made while no other is suspended.
NextRetry ==
    \/ Alone /\ InitializeWithin(MaxOverlap, MaxInFlight)
    \/ \E k \in 1..Len(inits) : InitializeCreatedWithin(k, MaxRetryClients)
    \/ \E k \in 1..Len(inits) : InitializeFailed(k)
    \/ Alone /\ Acquire(MaxCalls)
    \/ Alone /\ \E a \in Calls : Release(a)
    \/ Alone /\ Close
    \/ CloseDone

SpecRetry == Init /\ [][NextRetry]_vars

\* healthCheck() running by itself: while it probes, no other call is
\* made and no other caller's timer fires; only its own probe and the
\* timer of its own acquire() run.
NextHealthAlone ==
    \/ Alone /\ health.pc # "probing" /\ Initialize
    \/ \E k \in 1..Len(inits) : InitializeCreated(k)
    \/ health.pc # "probing" /\ Acquire(MaxCalls)
    \/ \E a \in Calls : (health.pc = "probing" => a = health.call) /\ AcquireTimeout(a)
    \/ health.pc # "probing" /\ \E a \in Calls : Release(a)
    \/ Alone /\ HealthCheck(MaxQueueCalls)
    \/ \E ok \in BOOLEAN : HealthProbe(ok)
    \/ HealthReturn

SpecHealthAlone == Init /\ [][NextHealthAlone]_vars

\* close() called as its precondition asks: the callers issue no acquire()
\* while close() runs; releases and timers still interleave with it.
NextClose ==
    \/ Alone /\ Initialize
    \/ \E k \in 1..Len(inits) : InitializeCreated(k)
    \/ closing = "idle" /\ Acquire(MaxCalls)
    \/ \E a \in Calls : AcquireTimeout(a)
    \/ \E a \in Calls : Release(a)
    \/ Alone /\ Close
    \/ CloseDone
    \/ CloseFailed

SpecClose == Init /\ [][NextClose]_vars

\* healthCheck() among callers of acquire() and release(), with initialize(),
\* a growing resize() and close() called while no other of them is
\* suspended, connections created without error.  The client the probe
\* holds is released by execute() alone.
NextHealth ==
    \/ Alone /\ Initialize
    \/ \E k \in 1..Len(inits) : InitializeCreated(k)
    \/ Alone /\ \E newSize \in (Len(connections) + 1)..MaxSize : Resize(newSize)
    \/ ResizeCreated
    \/ Acquire(MaxCalls)
    \/ \E a \in Calls : AcquireTimeout(a)
    \/ \E a \in Calls : (health.pc = "probing" => a # health.call) /\ Release(a)
    \/ Alone /\ Close
    \/ CloseDone
    \/ HealthCheck(MaxQueueCalls)
    \/ \E ok \in BOOLEAN : HealthProbe(ok)
    \/ HealthReturn

SpecHealth == Init /\ [][NextHealth]_vars

\* ------------------------------------------------------------ properties
\* The callers that hold client: acquire() returned it to them and they have
\* not released it.
Holders(client) == {a \in Calls : calls[a].st = "holding" /\ calls[a].client = client}

\* The acquire() calls still suspended, and the oldest of them (call numbers
\* are given in call order, so among waiters the smaller was enqueued first).
Pending == {a \in Calls : calls[a].st = "pending"}

\* The calls whose entry is in the wait queue.
Queued == {waitQueue[k].waiter : k \in 1..Len(waitQueue)}

\* Caller a gives back the client it holds in this step.
Releases(a) ==
    /\ calls[a].st = "holding"
    /\ calls'[a].st \in {"released", "returned", "threw"}

\* C1: a client returned by acquire() is held by one caller at a time.
ExclusiveOwnership ==
    \A c \in 1..MaxClients : Cardinality(Holders(c)) <= 1

\* C1 witness: one caller holds the only free record while another waits.
ContendedHold ==
    \E a, b \in Calls :
        /\ calls[a].st = "holding" /\ Tracked(calls[a].client)
        /\ calls[b].st = "pending"

\* C2: every record is idle and held by nobody, or in use and held by
\* exactly one caller.
RecordIdleOrHeldByOne ==
    \A i \in 1..Len(connections) :
        LET n == Cardinality(Holders(connections[i].client)) IN
        IF connections[i].inUse THEN n = 1 ELSE n = 0

\* The oldest suspended acquire().
OldestPending == Min(Pending)

\* C3: a release() of a tracked client with two or more suspended acquire()
\* calls fulfils the one enqueued first and leaves the later ones suspended.
ReleaseServesOldestWaiter ==
    [][\A a \in Calls :
          (Releases(a) /\ Tracked(calls[a].client) /\ Cardinality(Pending) >= 2)
          => /\ calls'[OldestPending].st = "holding"
             /\ \A w \in Pending \ {OldestPending} : calls'[w].st = "pending"]_vars

\* C4: when the timer of a suspended acquire() fires, its entry leaves the
\* wait queue (waiting drops by one) and the call fails with the timeout.
TimeoutRemovesWaiter ==
    [][\A a \in Calls :
          (calls[a].st = "pending" /\ calls[a].timer /\ ~calls'[a].timer
              /\ calls'[a].st \notin {"holding", "closed"})
          => /\ calls'[a].st = "timeout"
             /\ a \notin {waitQueue'[k].waiter : k \in 1..Len(waitQueue')}
             /\ Len(waitQueue') = Len(waitQueue) - 1]_vars

\* The record of client is in the list conns and idle.
IdleIn(conns, client) ==
    \E i \in 1..Len(conns) : conns[i].client = client /\ ~conns[i].inUse

\* C5: once some waiter has timed out, a release() of a tracked client gives
\* it to the oldest acquire() still suspended, or leaves the record idle when
\* none is; never to the waiter that timed out.
TimedOutWaiterNeverServed ==
    [][\A a \in Calls :
          (Releases(a) /\ Tracked(calls[a].client)
              /\ \E w \in Calls : calls[w].st = "timeout")
          => IF Pending = {}
             THEN IdleIn(connections', calls[a].client)
             ELSE /\ calls'[OldestPending].st = "holding"
                  /\ calls'[OldestPending].client = calls[a].client]_vars

\* What the caller of an acquire() has seen of it.
Outcome(call) ==
    CASE call.st \in {"holding", "released", "returned", "threw"} -> "fulfilled"
      [] call.st = "timeout" -> "timeout"
      [] call.st = "closed" -> "closed"
      [] OTHER -> "none"

\* C6: an acquire() that has an outcome keeps it, and the timer of one that
\* was fulfilled or rejected by close() is no longer armed.
AtMostOneOutcome ==
    [][\A a \in Calls :
          /\ Outcome(calls[a]) # "none" => Outcome(calls'[a]) = Outcome(calls[a])
          /\ Outcome(calls'[a]) \in {"fulfilled", "closed"} => ~calls'[a].timer]_vars

\* C6 witness: a waiter that timed out and whose queue entry has since been
\* taken by release() or close(), its outcome still the timeout.
SettledWaiterServedAgain ==
    \E a \in Calls : calls[a].st = "timeout" /\ a \notin Queued

\* No caller releases and no close() or resize() runs in this step.
OnlyTimersRun ==
    /\ \A b \in Calls : ~Releases(b)
    /\ closing' = closing
    /\ resizing' = resizing

\* C7: an acquire() that finds every record checked out is queued with its
\* timer armed and gets no client; while it is suspended the timer stays
\* armed, and when it fires the call fails with the timeout.
ExhaustedAcquireWaits ==
    [][\A a \in Calls :
          /\ (calls[a].st = "unused" /\ calls'[a].st \notin {"unused", "foreign"}
                 /\ FindIdle(connections) = 0)
             => /\ calls'[a] = [st |-> "pending", client |-> NoClient, timer |-> TRUE]
                /\ Len(waitQueue') = Len(waitQueue) + 1
                /\ waitQueue'[Len(waitQueue')].waiter = a
                /\ connections' = connections
          /\ calls'[a].st = "pending" => calls'[a].timer
          /\ (calls[a].st = "pending" /\ ~calls'[a].timer /\ OnlyTimersRun)
             => calls'[a].st = "timeout"]_vars

\* C7 witness: an acquire() has timed out while every record is still held
\* by a caller that acquired it earlier.
TimedOutWhileExhausted ==
    \E a \in Calls :
        /\ calls[a].st = "timeout"
        /\ Len(connections) > 0
        /\ \A i \in 1..Len(connections) :
              \E b \in Holders(connections[i].client) : b < a

\* C8: a release() of a tracked client while an acquire() is suspended hands
\* that client to the oldest one; the record stays in use, active and idle
\* are as before and waiting is one less.
DirectHandOff ==
    [][\A a \in Calls :
          (Releases(a) /\ Tracked(calls[a].client) /\ Pending # {})
          => /\ calls'[OldestPending].st = "holding"
             /\ calls'[OldestPending].client = calls[a].client
             /\ ~IdleIn(connections', calls[a].client)
             /\ getStatus'.active = getStatus.active
             /\ getStatus'.idle = getStatus.idle
             /\ getStatus'.waiting = getStatus.waiting - 1]_vars

\* Which callers hold which client.
Ownership == [c \in 1..MaxClients |-> Holders(c)]

\* C9: releasing a client a second time changes neither getStatus() nor who
\* holds which record.
DoubleReleaseIsNoOp ==
    [][(\E a \in Calls : DoubleRelease(a))
          => /\ getStatus' = getStatus
             /\ Ownership' = Ownership
             /\ \A i \in 1..Len(connections) :
                   connections'[i].inUse = connections[i].inUse]_vars

\* Caller a calls release() on a client that no record holds.
ReleasesUnknown(a) ==
    \/ Releases(a) /\ ~Tracked(calls[a].client)
    \/ calls[a].st = "unused" /\ calls'[a].st = "foreign"

\* C10: release() of a client no record holds leaves the records, their
\* inUse flags and the wait queue as they are and fulfils no waiter.
UnknownReleaseChangesNothing ==
    [][(\E a \in Calls : ReleasesUnknown(a))
          => /\ connections' = connections
             /\ waitQueue' = waitQueue
             /\ \A w \in Pending : calls'[w] = calls[w]]_vars

\* C10 witness: release() of a foreign client was called while an earlier
\* acquire() was, and still is, suspended in the queue.
ForeignReleaseWithWaiter ==
    \E a, w \in Calls :
        /\ w < a
        /\ calls[a].st = "foreign"
        /\ calls[w].st = "pending"
        /\ w \in Queued

\* C11: release() of a held, tracked client while the wait queue is empty
\* marks the record idle: active is one less, idle one more, total and waiting
\* are the same, and the record is one a later acquire() can find.
ReleaseMarksIdle ==
    [][\A a \in Calls :
          (Releases(a) /\ Tracked(calls[a].client) /\ Len(waitQueue) = 0)
          => /\ getStatus'.active = getStatus.active - 1
             /\ getStatus'.idle = getStatus.idle + 1
             /\ getStatus'.total = getStatus.total
             /\ getStatus'.waiting = getStatus.waiting
             /\ IdleIn(connections', calls[a].client)
             /\ FindIdle(connections') # 0]_vars

\* C11 witness: a caller has released with no acquire() ever queued, and a
\* later acquire() holds a tracked record.
ReleasedThenAcquired ==
    \E a, b \in Calls :
        /\ a < b
        /\ calls[a].st = "released"
        /\ calls[b].st = "holding" /\ Tracked(calls[b].client)
        /\ \A w \in Calls : calls[w].st \notin {"pending", "timeout", "closed"}

\* Call a is an execute() that settles in this step.
Settles(a) ==
    /\ calls'[a].st \in {"returned", "threw"}
    /\ calls[a].st \notin {"returned", "threw"}

\* The first entry of queue belongs to a suspended acquire(), which gets client.
HandedToWaiter(client, queue, cs) ==
    /\ Len(queue) > 0
    /\ LET w == queue[1].waiter IN
       cs[w].st = "pending" => (calls'[w].st = "holding" /\ calls'[w].client = client)

\* C12: an execute() settles only after its acquire() was fulfilled, and by
\* then release() of its client has run: the caller holds it no more and a
\* tracked record is idle, or still in use and passed to the head of the wait
\* queue.  A call whose acquire() failed never changes again.
ExecuteAlwaysReleases ==
    [][\A a \in Calls :
          /\ Settles(a)
             => /\ calls[a].st = "holding"
                /\ calls'[a].client = NoClient
                /\ LET c == calls[a].client IN
                   Tracked(c)
                   => \/ IdleIn(connections', c) /\ Len(waitQueue) = 0
                      \/ /\ Len(waitQueue) > 0
                         /\ ~IdleIn(connections', c)
                         /\ FindClient(connections', c) # 0
                         /\ waitQueue' = Tail(waitQueue)
                         /\ HandedToWaiter(c, waitQueue, calls)
          /\ calls[a].st \in {"timeout", "closed"} => calls'[a] = calls[a]]_vars

\* C12 witness: one execute() has thrown and one has returned, and no record
\* is left in use.
ExecuteThrewAndReturned ==
    /\ \E a, b \in Calls : calls[a].st = "threw" /\ calls[b].st = "returned"
    /\ Len(connections) > 0
    /\ \A i \in 1..Len(connections) : ~connections[i].inUse

\* C13: with only the idle cleanup removing records, an initialized pool
\* whose removals have all completed has at least floor(config.size / 2)
\* records.
CleanupKeepsFloor ==
    (initialized /\ removing = {}) => Len(connections) >= configSize \div 2

\* C14: a shrinking resize(n) that runs by itself and found at least
\* total - n records idle completes with total = n.
ShrinkReachesTarget ==
    [][(/\ resizing.pc = "shrink"
        /\ resizing'.pc = "idle"
        /\ resizing.removed + getStatus.idle >= resizing.toRemove)
       => Len(connections') = resizing.newSize]_vars

\* C15: no step of a shrinking resize() removes the record of a client a
\* caller holds.
ShrinkSparesHeld ==
    [][\A a \in Calls :
          (/\ calls[a].st = "holding"
           /\ Tracked(calls[a].client)
           /\ resizing.pc = "shrink"
           /\ resizing' # resizing)
          => FindClient(connections', calls[a].client) # 0]_vars

\* C16: every step of a growing resize(n) that runs by itself appends one
\* idle record and leaves the others as they are, and the call completes
\* with total = n.
GrowReachesTarget ==
    [][(resizing.pc = "grow" /\ resizing' # resizing)
       => /\ Len(connections') = Len(connections) + 1
          /\ SubSeq(connections', 1, Len(connections)) = connections
          /\ ~connections'[Len(connections')].inUse
          /\ resizing'.pc = "idle" => Len(connections') = resizing.newSize]_vars

\* C16 witness: a pool that was never initialized holds two or more records,
\* all made by resize(), the first of them checked out.
GrownByResize ==
    /\ ~initialized /\ inits = <<>> /\ resizing.pc = "idle"
    /\ Len(connections) >= 2
    /\ Len(connections) = configSize
    /\ connections[1].inUse

\* A resize() has returned leaving more records than config.size, and every
\* record is idle now.
ShrinkDeferred ==
    /\ resizing.pc = "idle"
    /\ Len(connections) > configSize
    /\ \A i \in 1..Len(connections) : ~connections[i].inUse

\* A caller has acquired a record again, or another resize() is running.
Disturbed ==
    \/ resizing.pc # "idle"
    \/ \E i \in 1..Len(connections) : connections[i].inUse

\* C17: once a pool left above config.size by a shrinking resize() has all
\* its records idle, total eventually equals config.size, unless a caller
\* acquires again or resize() is called again first.
EventualShrink ==
    ShrinkDeferred ~> (Len(connections) = configSize \/ Disturbed)

\* C18: every resize(newSize) call ends with config.size = newSize, whether
\* it returns or throws.
ResizeSetsConfigSize ==
    [][/\ (resizing.pc # "idle" /\ resizing'.pc = "idle")
          => configSize' = resizing.newSize
       /\ \A newSize \in 0..MaxSize :
             (Resize(newSize) /\ resizing'.pc = "idle") => configSize' = newSize]_vars

\* C19: close() rejects every acquire() suspended when it is called, with
\* the closing error and its timer cleared, and a call so rejected never
\* changes again; when close() returns total and waiting are 0 and
\* initialized is false.
CloseRejectsWaiters ==
    [][/\ \A a \in Calls :
             (calls[a].st = "pending" /\ closing = "idle" /\ closing' # "idle")
             => (calls'[a].st = "closed" /\ ~calls'[a].timer)
       /\ \A a \in Calls : calls[a].st = "closed" => calls'[a] = calls[a]
       /\ CloseDone
             => /\ getStatus'.total = 0
                /\ getStatus'.waiting = 0
                /\ ~initialized']_vars

\* C19 witness: close() has returned on a pool that had been initialized,
\* having rejected a suspended acquire().
ClosedWithWaiterRejected ==
    /\ \E a \in Calls : calls[a].st = "closed"
    /\ closing = "idle"
    /\ cleanupTimers > 0
    /\ ~initialized
    /\ Len(connections) = 0

\* C20: close() ends with no record, no waiter and initialized = false also
\* when a $disconnect() it awaits fails.
CloseSwallowsDisconnectFailure ==
    [][(closing = "disconnecting" /\ closing' = "idle")
       => /\ Len(connections') = 0
          /\ Len(waitQueue') = 0
          /\ ~initialized']_vars

\* The error list errors has the entry e.
Has(errors, e) == \E i \in 1..Len(errors) : errors[i] = e

\* healthCheck() is called in this step; it returns, or ends, in this step.
HealthCalled == health.pc # "probing" /\ health'.pc = "probing"
HealthEnded == health.pc = "probing" /\ health' # health

\* C21: healthCheck() records what it sees wrong at the call (flag not
\* set, no record, queue longer than the record list), and whenever it ends
\* it returns one of the three statuses with those errors kept and a failed
\* probe added to them: it never ends by throwing.
HealthNeverThrows ==
    [][/\ HealthCalled
          => /\ ~initialized => Has(health'.errors, "Pool not initialized")
             /\ getStatus.total = 0 => Has(health'.errors, "No connections in pool")
             /\ getStatus.waiting > getStatus.total
                   => Has(health'.errors, "High wait queue")
       /\ HealthEnded
          => /\ health'.pc = "done"
             /\ health'.status \in {"healthy", "degraded", "unhealthy"}
             /\ \A i \in 1..Len(health.errors) : Has(health'.errors, health.errors[i])
             /\ ProbeFailed => Has(health'.errors, "Connection test failed")]_vars

\* C21 witness: healthCheck() has returned after its probe failed on a pool
\* that had a record at the call.
HealthReportedProbeFailure ==
    /\ health.pc = "done"
    /\ Has(health.errors, "Connection test failed")
    /\ health.details.total > 0

\* C22: a healthCheck() whose probe failed returns unhealthy, and one that
\* returns degraded had a succeeding probe and one or two errors before it.
ProbeFailureUnhealthy ==
    [][HealthEnded
       => /\ ProbeFailed => health'.status = "unhealthy"
          /\ health'.status = "degraded"
                => (~ProbeFailed /\ Len(health.errors) \in 1..2)]_vars

\* A healthCheck() called on an initialized pool with records and a queue no
\* longer than the record list, and its probe succeeding, is healthy with no
\* error and reports the record count of the call.
HealthyWhenAllIsWell ==
    /\ (HealthCalled /\ initialized /\ getStatus.total > 0
            /\ getStatus.waiting <= getStatus.total)
       => (health'.errors = <<>> /\ health'.details.total = Len(connections))
    /\ (HealthEnded /\ health.errors = <<>> /\ ~ProbeFailed)
       => /\ health'.status = "healthy"
          /\ health'.errors = <<>>
          /\ health'.details = health.details

\* initialize() has not been called up to this state: no call of it is
\* suspended, none has started the timer.
NeverInitialized == ~initialized /\ cleanupTimers = 0 /\ inits = <<>>

\* C23 as stated: healthy when all is well, and a healthCheck() that runs on
\* a pool initialize() was never called on returns unhealthy with 'Pool not
\* initialized' among its errors.
UninitializedIsUnhealthy ==
    [][/\ HealthyWhenAllIsWell
       /\ (HealthEnded /\ NeverInitialized)
          => /\ health'.status = "unhealthy"
             /\ Has(health'.errors, "Pool not initialized")]_vars

\* C23 amended: healthy when all is well; a healthCheck() on a pool never
\* initialized records 'Pool not initialized', and returns unhealthy when
\* the pool had no record at the call and the probe failed; that probe stays
\* suspended or fails for as long as the pool has no record.
UninitializedEmptyIsUnhealthy ==
    [][/\ HealthyWhenAllIsWell
       /\ (HealthEnded /\ NeverInitialized)
          => Has(health'.errors, "Pool not initialized")
       /\ (HealthEnded /\ NeverInitialized /\ health.details.total = 0
              /\ ProbeFailed)
          => health'.status = "unhealthy"
       /\ (health.pc = "probing" /\ calls[health.call].st = "pending"
              /\ Len(connections) = 0)
          => calls'[health.call].st \in {"pending", "timeout", "closed"}]_vars

\* C23 witness: healthCheck() has returned unhealthy on a pool that was
\* never initialized and has no record.
UninitializedReportedUnhealthy ==
    /\ health.pc = "done" /\ health.status = "unhealthy"
    /\ NeverInitialized /\ Len(connections) = 0

\* C24: a healthCheck() called on an initialized pool whose records are all
\* checked out, with more waiters than records, returns degraded with 'High
\* wait queue' among its errors.
HighWaitQueueDegraded ==
    [][/\ (HealthCalled /\ initialized /\ getStatus.total > 0
              /\ getStatus.idle = 0 /\ getStatus.waiting > getStatus.total)
          => health'.errors = <<"High wait queue">>
       /\ (HealthEnded /\ health.errors = <<"High wait queue">>)
          => /\ health'.status = "degraded"
             /\ Has(health'.errors, "High wait queue")]_vars

\* C24 witness: healthCheck() has returned degraded for a pool that had, at
\* the call, every record checked out and more waiters than records.
HighWaitQueueReported ==
    /\ health.pc = "done" /\ health.status = "degraded"
    /\ Has(health.errors, "High wait queue")
    /\ health.details.idle = 0 /\ health.details.total > 0

\* ------------------------------------------------------------ initialize()
\* C25: an initialize() call creates nothing before its first connection is
\* made; each connection made is appended as one idle record with a new
\* client; on a pool that had no record at the call the loop goes on until
\* config.size records exist, and only then starts one timer and sets the
\* flag, with total = config.size and active = 0.
InitializeFillsPool ==
    [][/\ Len(inits') > Len(inits)
          => (connections' = connections /\ inits' = Append(inits, 0)
                /\ ~initialized' /\ cleanupTimers' = cleanupTimers)
       /\ Len(connections') > Len(connections)
          => /\ inits # <<>>
             /\ Len(connections') = Len(connections) + 1
             /\ SubSeq(connections', 1, Len(connections)) = connections
             /\ ~connections'[Len(connections')].inUse
             /\ \A i \in 1..Len(connections) :
                   connections[i].client # connections'[Len(connections')].client
             /\ Len(connections) = inits[1]
                   => IF inits[1] + 1 < configSize
                      THEN /\ inits' = <<inits[1] + 1>>
                           /\ ~initialized'
                           /\ cleanupTimers' = cleanupTimers
                      ELSE /\ inits' = <<>>
                           /\ initialized'
                           /\ cleanupTimers' = cleanupTimers + 1
                           /\ StatusOf(connections', waitQueue').total = configSize
                           /\ StatusOf(connections', waitQueue').active = 0]_vars

\* C25 witness: initialize() has filled a pool of the largest size.
InitializedFull ==
    /\ initialized /\ inits = <<>> /\ cleanupTimers = 1
    /\ configSize = MaxSize /\ getStatus.total = MaxSize /\ getStatus.active = 0

\* C26: on an initialized pool, a step that is no acquire(), release() or
\* timeout (initialize() is the one call left) changes nothing: no record,
\* no timer, no suspended call, the wait queue and the flag as they were.
InitializeIdempotent ==
    [][(initialized /\ calls' = calls)
       => UNCHANGED <<connections, waitQueue, initialized, cleanupTimers, inits,
                      configSize>>]_vars

\* C26 witness: an initialized pool, nothing in flight, with a caller
\* waiting, where initialize() can be called again.
InitializedWithWaiter ==
    /\ initialized /\ Alone /\ cleanupTimers = 1
    /\ waitQueue # <<>> /\ Len(connections) = configSize

\* C27: an initialize() call ends either with the record that completes its
\* loop, or by the failure of a creation, and then every record made before
\* stays in the list, the flag stays false and no timer is started.
InitializeFailureKeepsRecords ==
    [][Len(inits') < Len(inits)
       => \/ /\ connections' # connections
             /\ initialized'
          \/ /\ connections' = connections
             /\ Len(connections') >= inits[1]
             /\ ~initialized /\ ~initialized'
             /\ cleanupTimers' = cleanupTimers]_vars

\* C27 witness: an initialize() has failed at its second creation: the first
\* record is in the pool, which is not initialized and has no timer.
FailedAfterFirstRecord ==
    /\ ~initialized /\ inits = <<>> /\ cleanupTimers = 0
    /\ Len(connections) = 1 /\ configSize = 2

\* ------------------------------------------------------------- getStatus()
InUseRecord(r) == r.inUse
Holding == {a \in Calls : calls[a].st = "holding"}

\* C28: getStatus() reports the length of the record list as total, the
\* records in use as active, the others as idle, so that active + idle =
\* total, and the length of the wait queue as waiting; while every
\* acquire() made so far returned at once and nothing was released, active
\* is the number of those calls and idle the rest of the records.
StatusAccounting ==
    /\ getStatus.total = Len(connections)
    /\ getStatus.active = Len(SelectSeq(connections, InUseRecord))
    /\ getStatus.idle = Len(connections) - Len(SelectSeq(connections, InUseRecord))
    /\ getStatus.active + getStatus.idle = getStatus.total
    /\ getStatus.waiting = Len(waitQueue)
    /\ (\A a \in Calls : calls[a].st \in {"unused", "holding"})
       => /\ getStatus.active = Cardinality(Holding)
          /\ getStatus.idle = Len(connections) - Cardinality(Holding)

\* C28 witness: one immediate acquire() on an initialized pool of two
\* records, nothing released: one record active, one idle.
OneOfTwoAcquired ==
    /\ initialized /\ Len(connections) = 2
    /\ Cardinality(Holding) = 1
    /\ \A a \in Calls : calls[a].st \in {"unused", "holding"}
    /\ getStatus.active = 1 /\ getStatus.idle = 1

\* --------------------------------------------------------------- acquire()
IdleRecords == {i \in 1..Len(connections) : ~connections[i].inUse}

\* C29: an acquire() called while a record is idle returns in the same step
\* the client of the idle record of least index, which alone changes, to in
\* use; no waiter is made, no timer armed, no other call touched; active
\* goes up by one, idle down by one, total and waiting stay.
ImmediateAcquireFrame ==
    [][\A a \in Calls :
          (calls[a].st = "unused" /\ calls'[a] # calls[a] /\ IdleRecords # {})
          => LET i == Min(IdleRecords) IN
             /\ calls'[a] = [st |-> "holding", client |-> connections[i].client,
                             timer |-> FALSE]
             /\ \A b \in Calls \ {a} : calls'[b] = calls[b]
             /\ connections'[i].inUse /\ connections'[i].client = connections[i].client
             /\ Len(connections') = Len(connections)
             /\ \A j \in 1..Len(connections) : j # i => connections'[j] = connections[j]
             /\ waitQueue' = waitQueue
             /\ StatusOf(connections', waitQueue').active = getStatus.active + 1
             /\ StatusOf(connections', waitQueue').idle = getStatus.idle - 1
             /\ StatusOf(connections', waitQueue').total = getStatus.total
             /\ StatusOf(connections', waitQueue').waiting = getStatus.waiting]_vars

\* C29 witness: of two records the first is held by an acquire() made while
\* both were idle, the second is still idle.
FirstOfTwoIdleTaken ==
    /\ Len(connections) = 2
    /\ connections[1].inUse /\ ~connections[2].inUse
    /\ \E a \in Calls : calls[a].st = "holding" /\ calls[a].client = connections[1].client
    /\ \A a \in Calls : calls[a].st \in {"unused", "holding"}

\* C30: while an acquire() is suspended in the wait queue no record is
\* idle; stated for the steps of an initialized pool whose records are all
\* in use and which has a waiter: as long as a waiter stays, no record
\* becomes idle.
NoIdleWhileWaiting ==
    [][(initialized /\ connections # <<>> /\ IdleRecords = {}
           /\ Pending # {} /\ Pending' # {})
       => IdleRecords' = {}]_vars

\* ------------------------------------------------------------------ waiting
\* C31: every waiter in the queue has its timer armed or its promise
\* settled; a suspended acquire() leaves suspension only fulfilled with a
\* client, rejected by its timer or rejected by close(); and every
\* suspended acquire() does leave it.
NoAcquireHangs ==
    /\ [](\A k \in 1..Len(waitQueue) :
             calls[waitQueue[k].waiter].timer
                \/ calls[waitQueue[k].waiter].st # "pending")
    /\ [](\A a \in Pending : calls[a].timer)
    /\ [][\A a \in Pending :
             calls'[a].st \in {"pending", "holding", "timeout", "closed"}]_vars
    /\ \A a \in Calls : (calls[a].st = "pending") ~> (calls[a].st # "pending")

\* C31 witness: one suspended acquire() ended by its timer, another by
\* close().
TimedOutAndClosed ==
    \E a, b \in Calls : calls[a].st = "timeout" /\ calls[b].st = "closed"

\* ----------------------------------------------------------------- shrink
\* C32: a shrinking resize(n) running by itself changes no record when it
\* is called; each of its steps removes at most one record, never adds one,
\* never takes total below n, and leaves every record in use in the list;
\* when it returns n <= total.
ShrinkRemovesAtMost ==
    [][/\ (resizing.pc = "idle" /\ resizing'.pc = "shrink")
          => (connections' = connections /\ resizing'.newSize < Len(connections))
       /\ resizing.pc = "shrink"
          => /\ Len(connections') \in {Len(connections) - 1, Len(connections)}
             /\ Len(connections') >= resizing.newSize
             /\ \A i \in 1..Len(connections) :
                   connections[i].inUse
                      => \E j \in 1..Len(connections') : connections'[j] = connections[i]
             /\ StatusOf(connections', waitQueue').active = getStatus.active
             /\ resizing'.pc = "idle"
                   => (configSize' = resizing.newSize
                          /\ resizing.newSize <= Len(connections'))]_vars

\* C32 witness: resize(0) has removed the first of two records and
\* returned with the second still in the list, now held by a caller.
ShrunkAroundHeld ==
    /\ resizing.pc = "idle" /\ configSize = 0
    /\ Len(connections) = 1
    /\ connections[1].inUse /\ connections[1].client = 2

\* ------------------------------------------------------ failed disconnects
\* C33: when the $disconnect() of a removeConnection() started by the
\* cleanup tick fails, the record list, the callers, the wait queue and the
\* timer are as before; when that of a shrinking resize() fails, the same
\* holds, the loop goes on, and the call ends by setting config.size.
DisconnectFailureSwallowed ==
    [][/\ removing' # removing /\ removing' \subseteq removing
          => /\ connections' = connections
             /\ calls' = calls /\ waitQueue' = waitQueue
             /\ cleanupTimers' = cleanupTimers /\ cleanupTimers > 0
       /\ resizing.pc = "shrink" /\ resizing' # resizing
          => /\ connections' = connections
             /\ calls' = calls /\ waitQueue' = waitQueue
             /\ cleanupTimers' = cleanupTimers
             /\ resizing'.pc \in {"shrink", "idle"}
             /\ resizing'.pc = "idle" => configSize' = resizing.newSize]_vars

\* C33 witness: resize(0) has returned from a pool of two idle records
\* neither of which could be disconnected, and the interval is still set.
ShrinkFailedRecordsKept ==
    /\ resizing.pc = "idle" /\ removing = {} /\ configSize = 0
    /\ cleanupTimers = 1
    /\ Len(connections) = 2
    /\ \A i \in 1..Len(connections) : ~connections[i].inUse

\* ------------------------------------------------------------ idle cleanup
\* The record of client in the list conns (client is tracked there).
RecordOf(conns, client) == conns[FindClient(conns, client)]

\* C34: a tick starts the destruction only of records that are idle and
\* were last used more than idleTimeout ago, and changes no record itself;
\* a record leaves the list only when such a destruction completes; and a
\* record whose inUse flag an acquire() or a release() changes has a fresh
\* lastUsed afterwards.
CleanupOnlyExpiredIdle ==
    [][/\ (removing \subseteq removing' /\ removing' # removing)
          => /\ connections' = connections
             /\ \A c \in removing' \ removing :
                   /\ FindClient(connections, c) # 0
                   /\ ~RecordOf(connections, c).inUse
                   /\ RecordOf(connections, c).old
       /\ Len(connections') < Len(connections)
          => \E c \in removing \ removing' :
                /\ FindClient(connections, c) # 0
                /\ connections' = RemoveAt(connections, FindClient(connections, c))
       /\ \A i \in 1..Len(connections) :
             LET c == connections[i].client IN
             (FindClient(connections', c) # 0
                 /\ RecordOf(connections', c).inUse # connections[i].inUse)
             => ~RecordOf(connections', c).old]_vars

\* C34 witness: of the two records of a pool of size 2 the second was
\* destroyed by the cleanup; the first, used since, is idle and in the list.
ExpiredDestroyedFreshKept ==
    /\ initialized /\ configSize = 2 /\ removing = {}
    /\ Len(connections) = 1
    /\ connections[1].client = 1
    /\ ~connections[1].inUse /\ ~connections[1].old
    /\ \E a \in Calls : calls[a].st = "released"

\* The clients whose $disconnect() a removeConnection() has started and
\* not yet seen settle.
UnderDestruction ==
    removing \cup (IF resizing.pc = "shrink" THEN {resizing.target} ELSE {})

\* C35: no acquire() returns, and no waiter is fulfilled with, the client of
\* a record that is under destruction.
DestroyedNeverHandedOut ==
    [][\A a \in Calls :
          (calls[a].st # "holding" /\ calls'[a].st = "holding")
          => calls'[a].client \notin UnderDestruction]_vars

\* ------------------------------------------------- overlapping initialize()
\* C36: once every initialize() call has settled and the pool is
\* initialized, it has exactly config.size records and exactly one cleanup
\* interval, also when the calls overlapped.
OverlappingInitializeExact ==
    (initialized /\ inits = <<>>)
       => (Len(connections) = configSize /\ cleanupTimers = 1)

\* C37: the step by which an initialize() call completes successfully
\* leaves exactly config.size records in the pool.
InitializeSuccessExact ==
    [][(Len(inits') < Len(inits) /\ ~initialized /\ initialized')
       => Len(connections') = configSize]_vars

\* -------------------------------------------------------- cleanup interval
\* C38: at most one cleanup interval is set at any time, and none is set
\* when close() returns.
CleanupTimerLifecycle ==
    [][/\ cleanupTimers' <= 1
       /\ (closing # "idle" /\ closing' = "idle" /\ connections' = <<>>
              /\ ~initialized')
          => cleanupTimers' = 0]_vars

\* ----------------------------------------------------- healthCheck() frame
\* C39: when healthCheck() returns, getStatus() is what it was at the call,
\* its probe holds no client, and no waiter of its probe is in the queue.
HealthCheckLeavesPool ==
    [][HealthEnded
       => /\ StatusOf(connections', waitQueue') = health.details
          /\ calls'[health.call].client = NoClient
          /\ \A k \in 1..Len(waitQueue') : waitQueue'[k].waiter # health.call]_vars

====
